---------------------------- MODULE Spec2Model ----------------------------
(***************************************************************************)
(* Model of the interactive-message object model of whatsapp-api-js        *)
(* (src/messages/interactive.ts): the constructors of Body, Footer,        *)
(* Header, Button, Row, ListSection, Product, ProductSection,              *)
(* ActionButtons, ActionList, ActionCatalog and Interactive, with the      *)
(* checks they make, the errors they throw and the fields they write or    *)
(* delete on their arguments; and of the client of src/index.ts: its       *)
(* constructor, the webhook's post with its signature check, and the       *)
(* asynchronous operations sendMessage, markAsRead, retrieveQR and         *)
(* deleteMedia as steps around their awaits.                               *)
(*                                                                         *)
(* JavaScript values are records: a string is [chars |-> <<c1, ..., cn>>], *)
(* an object is a record of its own properties plus its class, and the     *)
(* value undefined is the record `undefined`.  hasOwnProperty(o, f) is     *)
(* f \in DOMAIN o, and `delete o.f` removes f from the domain.             *)
(***************************************************************************)
EXTENDS Integers, Sequences, FiniteSets, TLC

VARIABLES
    call,       \* the constructor call being made: [op, args] (args as passed)
    outcome,    \* its outcome: Pending, or [error, this]
    action,     \* the action object the caller holds (reused between calls)
    object,     \* the Text / media object the caller holds
    header,     \* the Header the caller holds
    client,     \* the WhatsAppAPI instance, undefined where none is involved
    pc,         \* where the asynchronous call in progress stands
    log         \* what the call in progress has done so far, in order

vars == <<call, outcome, action, object, header, client, pc, log>>

---------------------------------------------------------------------------
(* JavaScript values *)

undefined == [undefined |-> TRUE]

Str(s) == [chars |-> s]

IsStr(v) == "chars" \in DOMAIN v

\* JavaScript truthiness: undefined and "" are falsy, objects and other strings truthy
Truthy(v) == /\ v # undefined
             /\ IsStr(v) => Len(v.chars) > 0

\* Object.prototype.hasOwnProperty.call(o, f)
HasOwnProperty(o, f) == f \in DOMAIN o

\* delete o[f]
Delete(o, f) == [k \in DOMAIN o \ {f} |-> o[k]]

\* o[f] = v
Assign(o, f, v) == [k \in DOMAIN o \cup {f} |-> IF k = f THEN v ELSE o[k]]

\* o instanceof C
InstanceOf(o, C) == HasOwnProperty(o, "class") /\ o.class = C

\* the internal discriminant property, named "_" in the source
TAG == "_"

\* a constructor's outcome: it throws, or it returns the new instance
Throw(msg) == [error |-> msg, this |-> undefined]

Return(obj) == [error |-> "", this |-> obj]

Pending == [pending |-> TRUE]

Done == outcome # Pending

Threw == Done /\ outcome.error # ""

Returned == Done /\ outcome.error = ""

---------------------------------------------------------------------------
(* Length limits of the source *)

MaxBodyText == 1024
MaxFooterText == 60
MaxHeaderText == 60
MaxButtonId == 256
MaxButtonTitle == 20
MaxListButton == 20
MaxSectionTitle == 24
MaxRowId == 200
MaxRowTitle == 24
MaxRowDescription == 72

---------------------------------------------------------------------------
(* Primitive payload objects *)

Body_AtLimitThrows(text) ==
    IF ~Truthy(text) THEN Throw("Body must have a text object")
    ELSE IF Len(text.chars) >= MaxBodyText
        THEN Throw("Body text must be less than 1024 characters")
    ELSE Return([class |-> "Body", text |-> text])

Body(text) ==
    IF ~Truthy(text) THEN Throw("Body must have a text object")
    ELSE IF Len(text.chars) > MaxBodyText
        THEN Throw("Body text must be less than 1024 characters")
    ELSE Return([class |-> "Body", text |-> text])

Footer(text) ==
    IF ~Truthy(text) THEN Throw("Footer must have a text object")
    ELSE IF Len(text.chars) > MaxFooterText
        THEN Throw("Footer text must be 60 characters or less")
    ELSE Return([class |-> "Footer", text |-> text])

\* /^ | $/.test(id): a space first or a space last
LeadingOrTrailingSpace(s) == Len(s) > 0 /\ (s[1] = " " \/ s[Len(s)] = " ")

Button(id, title) ==
    IF ~Truthy(id) THEN Throw("Button must have an id")
    ELSE IF Len(id.chars) > MaxButtonId
        THEN Throw("Button id must be 256 characters or less")
    ELSE IF LeadingOrTrailingSpace(id.chars)
        THEN Throw("Button id cannot have leading or trailing spaces")
    ELSE IF ~Truthy(title) THEN Throw("Button must have a title")
    ELSE IF Len(title.chars) > MaxButtonTitle
        THEN Throw("Button title must be 20 characters or less")
    ELSE Return([class |-> "Button", type |-> "reply",
                 reply |-> [title |-> title, id |-> id]])

Row(id, title, description) ==
    IF ~Truthy(id) THEN Throw("Row must have an id")
    ELSE IF Len(id.chars) > MaxRowId
        THEN Throw("Row id must be 200 characters or less")
    ELSE IF ~Truthy(title) THEN Throw("Row must have a title")
    ELSE IF Len(title.chars) > MaxRowTitle
        THEN Throw("Row title must be 24 characters or less")
    ELSE IF Truthy(description) /\ Len(description.chars) > MaxRowDescription
        THEN Throw("Row description must be 72 characters or less")
    ELSE Return(IF Truthy(description)
                THEN [class |-> "Row", id |-> id, title |-> title,
                      description |-> description]
                ELSE [class |-> "Row", id |-> id, title |-> title])

Product(product_retailer_id) ==
    IF ~Truthy(product_retailer_id)
        THEN Throw("Product must have a product_retailer_id")
    ELSE Return([class |-> "Product",
                 product_retailer_id |-> product_retailer_id])

---------------------------------------------------------------------------
(* Inputs of the primitive constructors *)

\* how many characters past a limit the inputs go
Over == 1

\* how many characters below a limit the inputs start
Under == 1

\* the longest of the short strings
MaxShort == 2

Rep(c, n) == [i \in 1..n |-> c]

\* strings around a length limit, the short ones, "" and undefined
TextInputs(max) ==
    {undefined}
    \cup {Str(Rep("a", n)) : n \in 0..MaxShort}
    \cup {Str(Rep("a", n)) : n \in (max - Under)..(max + Over)}

\* ids with spaces in them
SpacedIds == {Str(<<" ">>), Str(<<" ", "a">>), Str(<<"a", " ">>),
              Str(<<"a", " ", "b">>)}

PrimitiveCalls ==
    {[op |-> "Body", args |-> <<t>>] : t \in TextInputs(MaxBodyText)}
    \cup {[op |-> "Footer", args |-> <<t>>] : t \in TextInputs(MaxFooterText)}
    \cup {[op |-> "Button", args |-> <<i, t>>] :
            i \in TextInputs(MaxButtonId) \cup SpacedIds,
            t \in TextInputs(MaxButtonTitle)}
    \cup {[op |-> "Row", args |-> <<i, t, d>>] :
            i \in TextInputs(MaxRowId), t \in TextInputs(MaxRowTitle),
            d \in TextInputs(MaxRowDescription)}
    \cup {[op |-> "Product", args |-> <<p>>] : p \in TextInputs(MaxShort)}

NoHeld == action = undefined /\ object = undefined /\ header = undefined

\* no client is involved
NoClient == client = undefined /\ pc = "idle" /\ log = <<>>

Wire == <<client, pc, log>>

\* the caller is about to make one constructor call
InitPrimitive == /\ call \in PrimitiveCalls
                 /\ outcome = Pending
                 /\ NoHeld /\ NoClient

Held == <<action, object, header>>

NewBody == /\ call.op = "Body" /\ outcome = Pending
           /\ outcome' = Body(call.args[1])
           /\ UNCHANGED <<call, Held, Wire>>

NewFooter == /\ call.op = "Footer" /\ outcome = Pending
             /\ outcome' = Footer(call.args[1])
             /\ UNCHANGED <<call, Held, Wire>>

NewButton == /\ call.op = "Button" /\ outcome = Pending
             /\ outcome' = Button(call.args[1], call.args[2])
             /\ UNCHANGED <<call, Held, Wire>>

NewRow == /\ call.op = "Row" /\ outcome = Pending
          /\ outcome' = Row(call.args[1], call.args[2], call.args[3])
          /\ UNCHANGED <<call, Held, Wire>>

NewProduct == /\ call.op = "Product" /\ outcome = Pending
              /\ outcome' = Product(call.args[1])
              /\ UNCHANGED <<call, Held, Wire>>

NextPrimitive == \/ NewBody
                 \/ NewFooter
                 \/ NewButton
                 \/ NewRow
                 \/ NewProduct

SpecPrimitive == InitPrimitive /\ [][NextPrimitive]_vars

---------------------------------------------------------------------------
(* Claims about the primitive constructors *)

\* the length of a string argument, -1 for undefined
Length(v) == IF IsStr(v) THEN Len(v.chars) ELSE -1

\* a valid required string argument: short, non-empty, no space at either end
ArgValid(j) == /\ Length(call.args[j]) \in 1..MaxShort
               /\ call.args[j].chars[1] # " "
               /\ call.args[j].chars[Length(call.args[j])] # " "

\* a valid optional string argument: short, empty or left out
ArgOptional(j) == Length(call.args[j]) <= MaxShort

\* field i of constructor op, the other fields being valid: at max characters
\* the call returns, at max + 1 it throws
AtLimit(op, i, max, required, optional) ==
    (/\ Done /\ call.op = op
     /\ \A j \in required : ArgValid(j)
     /\ \A j \in optional : ArgOptional(j))
        => /\ Length(call.args[i]) = max => outcome.error = ""
           /\ Length(call.args[i]) = max + 1 => outcome.error # ""

\* C9: for each length-limited text field (Body text 1024, Footer text 60,
\* Row id 200, Row title 24, Row description 72, Button id 256, Button title
\* 20), construction with the field at exactly its maximum length succeeds
\* and with the field one character longer fails, the other fields being valid.
C9_LengthLimits ==
    /\ AtLimit("Body", 1, 1024, {}, {})
    /\ AtLimit("Footer", 1, 60, {}, {})
    /\ AtLimit("Row", 1, 200, {2}, {3})
    /\ AtLimit("Row", 2, 24, {1}, {3})
    /\ AtLimit("Row", 3, 72, {1, 2}, {})
    /\ AtLimit("Button", 1, 256, {2}, {})
    /\ AtLimit("Button", 2, 20, {1}, {})

\* a Body of exactly 1024 characters has been built
C9_Witness ==
    /\ Returned /\ call.op = "Body"
    /\ Length(call.args[1]) = 1024
    /\ outcome.this.text = call.args[1]

---------------------------------------------------------------------------
(* Collection objects *)

MaxButtons == 3
MaxRows == 10
MaxListSections == 10
MaxProductSections == 10
MaxProducts == 30

\* array.map(f) for f given as a field path, and new Set(array).size
SetSize(seq) == Cardinality({seq[i] : i \in 1..Len(seq)})

ActionButtons_TitlesUnchecked(button) ==
    IF Len(button) = 0 \/ Len(button) > MaxButtons
        THEN Throw("Reply buttons must have between 1 and 3 buttons")
    ELSE LET ids == [i \in 1..Len(button) |-> button[i][button[i].type].id]
         IN IF Len(ids) # SetSize(ids)
                THEN Throw("Reply buttons must have unique ids")
            ELSE Return(Assign([class |-> "ActionButtons", buttons |-> button],
                               TAG, "button"))

ActionButtons(button) ==
    IF Len(button) = 0 \/ Len(button) > MaxButtons
        THEN Throw("Reply buttons must have between 1 and 3 buttons")
    ELSE LET ids == [i \in 1..Len(button) |-> button[i][button[i].type].id]
             titles == [i \in 1..Len(button) |-> button[i][button[i].type].title]
         IN IF Len(ids) # SetSize(ids)
                THEN Throw("Reply buttons must have unique ids")
            ELSE IF Len(titles) # SetSize(titles)
                THEN Throw("Reply buttons must have unique titles")
            ELSE Return(Assign([class |-> "ActionButtons", buttons |-> button],
                               TAG, "button"))

ListSection(title, rows) ==
    IF Truthy(title) /\ Len(title.chars) > MaxSectionTitle
        THEN Throw("Section title must be 24 characters or less")
    ELSE IF Len(rows) = 0 \/ Len(rows) > MaxRows
        THEN Throw("Section must have between 1 and 10 rows")
    ELSE Return(IF Truthy(title)
                THEN [class |-> "ListSection", title |-> title, rows |-> rows]
                ELSE [class |-> "ListSection", rows |-> rows])

EveryHasTitle_FirstOnly(sections) == HasOwnProperty(sections[1], "title")

\* sections.every((obj) => hasOwnProperty(obj, "title"))
EveryHasTitle(sections) ==
    \A i \in 1..Len(sections) : HasOwnProperty(sections[i], "title")

ActionList(button, sections) ==
    IF ~Truthy(button) THEN Throw("Action must have a button content")
    ELSE IF Len(button.chars) > MaxListButton
        THEN Throw("Button content must be 20 characters or less")
    ELSE IF Len(sections) = 0 \/ Len(sections) > MaxListSections
        THEN Throw("Action must have between 1 and 10 sections")
    ELSE IF Len(sections) > 1 /\ ~EveryHasTitle(sections)
        THEN Throw("All sections must have a title if more than 1 section is provided")
    ELSE Return(Assign([class |-> "ActionList", button |-> button,
                        sections |-> sections], TAG, "list"))

ProductSection_NoUpperBound(title, products) ==
    IF Truthy(title) /\ Len(title.chars) > MaxSectionTitle
        THEN Throw("Section title must be 24 characters or less")
    ELSE IF Len(products) = 0
        THEN Throw("Section must have between 1 and 30 products")
    ELSE Return(IF Truthy(title)
                THEN [class |-> "ProductSection", title |-> title,
                      product_items |-> products]
                ELSE [class |-> "ProductSection", product_items |-> products])

ProductSection(title, products) ==
    IF Truthy(title) /\ Len(title.chars) > MaxSectionTitle
        THEN Throw("Section title must be 24 characters or less")
    ELSE IF Len(products) = 0 \/ Len(products) > MaxProducts
        THEN Throw("Section must have between 1 and 30 products")
    ELSE Return(IF Truthy(title)
                THEN [class |-> "ProductSection", title |-> title,
                      product_items |-> products]
                ELSE [class |-> "ProductSection", product_items |-> products])

\* what is wrong with one element of a product list of two or more, "" if nothing
SectionFault(obj) ==
    IF ~InstanceOf(obj, "ProductSection")
        THEN "Catalog must have only ProductSection objects"
    ELSE IF ~HasOwnProperty(obj, "title")
        THEN "All sections must have a title if more than 1 section is provided"
    ELSE ""

ActionCatalogSections_TitlesUnchecked(products) ==
    IF Len(products) > MaxProductSections
        THEN "Catalog must have between 1 and 10 product sections"
    ELSE IF Len(products) > 1
        THEN LET faulty == {i \in 1..Len(products) :
                              ~InstanceOf(products[i], "ProductSection")}
             IN IF faulty = {} THEN ""
                ELSE "Catalog must have only ProductSection objects"
    ELSE ""

\* the else branch of the single-product test: the error of the first faulty
\* element in iteration order, "" if the list passes
ActionCatalogSections(products) ==
    IF Len(products) > MaxProductSections
        THEN "Catalog must have between 1 and 10 product sections"
    ELSE IF Len(products) > 1
        THEN LET faulty == {i \in 1..Len(products) : SectionFault(products[i]) # ""}
             IN IF faulty = {} THEN ""
                ELSE SectionFault(products[CHOOSE i \in faulty :
                                             \A j \in faulty : i <= j])
    ELSE ""

ActionCatalog_ManyProducts(catalog_id, products) ==
    IF ~Truthy(catalog_id) THEN Throw("Catalog must have a catalog id")
    ELSE IF Len(products) = 0
        THEN Throw("Catalog must have at least one product or product section")
    ELSE LET first_product == products[1]
             is_single_product == InstanceOf(first_product, "Product")
             this == [class |-> "ActionCatalog", catalog_id |-> catalog_id]
         IN Return(Assign(
                IF is_single_product
                THEN Assign(this, "product_retailer_id",
                            first_product.product_retailer_id)
                ELSE Assign(this, "sections", products),
                TAG, IF is_single_product THEN "product" ELSE "product_list"))

ActionCatalog_SectionsAlways(catalog_id, products) ==
    IF ~Truthy(catalog_id) THEN Throw("Catalog must have a catalog id")
    ELSE IF Len(products) = 0
        THEN Throw("Catalog must have at least one product or product section")
    ELSE LET first_product == products[1]
             is_single_product == InstanceOf(first_product, "Product")
             this == [class |-> "ActionCatalog", catalog_id |-> catalog_id,
                      sections |-> products]
         IN IF is_single_product /\ Len(products) > 1
                THEN Throw("Catalog must have only 1 product, use a ProductSection instead")
            ELSE IF ActionCatalogSections(products) # ""
                THEN Throw(ActionCatalogSections(products))
            ELSE Return(Assign(
                    IF is_single_product
                    THEN Assign(this, "product_retailer_id",
                                first_product.product_retailer_id)
                    ELSE this,
                    TAG, IF is_single_product THEN "product" ELSE "product_list"))

ActionCatalog(catalog_id, products) ==
    IF ~Truthy(catalog_id) THEN Throw("Catalog must have a catalog id")
    ELSE IF Len(products) = 0
        THEN Throw("Catalog must have at least one product or product section")
    ELSE LET first_product == products[1]
             is_single_product == InstanceOf(first_product, "Product")
             this == [class |-> "ActionCatalog", catalog_id |-> catalog_id]
         IN IF is_single_product /\ Len(products) > 1
                THEN Throw("Catalog must have only 1 product, use a ProductSection instead")
            ELSE IF ActionCatalogSections(products) # ""
                THEN Throw(ActionCatalogSections(products))
            ELSE Return(Assign(
                    IF is_single_product
                    THEN Assign(this, "product_retailer_id",
                                first_product.product_retailer_id)
                    ELSE Assign(this, "sections", products),
                    TAG, IF is_single_product THEN "product" ELSE "product_list"))

---------------------------------------------------------------------------
(* Inputs of the collection constructors *)

\* how many children past a maximum count the inputs go
OverCount == 1

\* up to this length every sequence over the pool of children is an input
MaxMixed == 3

SeqsUpTo(S, n) == UNION {[1..k -> S] : k \in 0..n}

\* n copies of one child
Copies(x, n) == [j \in 1..n |-> x]

ButtonIds == {Str(<<"a">>), Str(<<"b">>), Str(<<"c">>)}

ButtonTitles == {Str(<<"a">>), Str(<<"b">>), Str(<<"a", " ">>)}

ButtonPool == {Button(i, t).this : i \in ButtonIds, t \in ButtonTitles}

\* n Buttons with pairwise different ids and titles
DistinctButtons(n) ==
    [j \in 1..n |-> Button(Str(Rep("a", j)), Str(Rep("b", j))).this]

ButtonLists == SeqsUpTo(ButtonPool, MaxMixed)
               \cup {DistinctButtons(n) : n \in 0..(MaxButtons + OverCount)}

DistinctRows(n) ==
    [j \in 1..n |-> Row(Str(Rep("r", j)), Str(Rep("t", j)), undefined).this]

RowLists == {DistinctRows(n) : n \in 0..(MaxRows + OverCount)}
            \cup {Copies(DistinctRows(1)[1], n) : n \in 0..MaxMixed}

DistinctProducts(n) == [j \in 1..n |-> Product(Str(Rep("p", j))).this]

ProductLists == {DistinctProducts(n) : n \in 0..(MaxProducts + OverCount)}

\* section titles as passed: left out, empty, or a name
SectionTitles == {undefined, Str(<<>>), Str(<<"a">>), Str(<<"b">>)}

ListSectionPool == {ListSection(t, DistinctRows(1)).this : t \in SectionTitles}

ListSectionLists ==
    SeqsUpTo(ListSectionPool, MaxMixed)
    \cup {Copies(x, n) : x \in ListSectionPool,
                         n \in 0..(MaxListSections + OverCount)}

ProductSectionPool ==
    {ProductSection(t, DistinctProducts(2)).this : t \in SectionTitles}

CatalogItemPool == {DistinctProducts(2)[1], DistinctProducts(2)[2]}
                   \cup ProductSectionPool

CatalogItemLists ==
    SeqsUpTo(CatalogItemPool, MaxMixed)
    \cup {Copies(x, n) : x \in CatalogItemPool,
                         n \in 0..(MaxProductSections + OverCount)}

CollectionCalls ==
    {[op |-> "ActionButtons", args |-> <<b>>] : b \in ButtonLists}
    \cup {[op |-> "ListSection", args |-> <<t, r>>] :
            t \in TextInputs(MaxSectionTitle), r \in RowLists}
    \cup {[op |-> "ProductSection", args |-> <<t, p>>] :
            t \in TextInputs(MaxSectionTitle), p \in ProductLists}
    \cup {[op |-> "ActionList", args |-> <<b, l>>] :
            b \in TextInputs(MaxListButton), l \in ListSectionLists}
    \cup {[op |-> "ActionCatalog", args |-> <<c, l>>] :
            c \in TextInputs(MaxShort), l \in CatalogItemLists}

InitCollection == /\ call \in CollectionCalls
                  /\ outcome = Pending
                  /\ NoHeld /\ NoClient

NewActionButtons == /\ call.op = "ActionButtons" /\ outcome = Pending
                    /\ outcome' = ActionButtons(call.args[1])
                    /\ UNCHANGED <<call, Held, Wire>>

NewListSection == /\ call.op = "ListSection" /\ outcome = Pending
                  /\ outcome' = ListSection(call.args[1], call.args[2])
                  /\ UNCHANGED <<call, Held, Wire>>

NewProductSection == /\ call.op = "ProductSection" /\ outcome = Pending
                     /\ outcome' = ProductSection(call.args[1], call.args[2])
                     /\ UNCHANGED <<call, Held, Wire>>

NewActionList == /\ call.op = "ActionList" /\ outcome = Pending
                 /\ outcome' = ActionList(call.args[1], call.args[2])
                 /\ UNCHANGED <<call, Held, Wire>>

NewActionCatalog == /\ call.op = "ActionCatalog" /\ outcome = Pending
                    /\ outcome' = ActionCatalog(call.args[1], call.args[2])
                    /\ UNCHANGED <<call, Held, Wire>>

NextCollection == \/ NewActionButtons
                  \/ NewListSection
                  \/ NewProductSection
                  \/ NewActionList
                  \/ NewActionCatalog

SpecCollection == InitCollection /\ [][NextCollection]_vars

---------------------------------------------------------------------------
(* Claims about the collection constructors *)

\* two children of the call's variadic argument k agree on a reply field
SameId(k, i, j) == call.args[k][i].reply.id = call.args[k][j].reply.id

SameTitle(k, i, j) == call.args[k][i].reply.title = call.args[k][j].reply.title

Clash(k) == \E i, j \in 1..Len(call.args[k]) :
                i < j /\ (SameId(k, i, j) \/ SameTitle(k, i, j))

\* C5: for every sequence of 1 to 3 Buttons given to ActionButtons,
\* construction fails if two buttons share an id (even with different titles)
\* or two share a title (even with different ids), by exact string equality,
\* and succeeds when all ids and all titles are pairwise distinct.
C5_ButtonsUnique ==
    (Done /\ call.op = "ActionButtons" /\ Len(call.args[1]) \in 1..3)
        => (outcome.error # "" <=> Clash(1))

\* two buttons with different ids and one title were refused
C5_Witness ==
    /\ Threw /\ call.op = "ActionButtons" /\ Len(call.args[1]) = 2
    /\ SameTitle(1, 1, 2) /\ ~SameId(1, 1, 2)
    /\ outcome.error = "Reply buttons must have unique titles"

\* the rules of a collection constructor other than its child count hold
Titled(k) == \A i \in 1..Len(call.args[k]) : HasOwnProperty(call.args[k][i], "title")

AllOfClass(k, C) == \A i \in 1..Len(call.args[k]) : call.args[k][i].class = C

OtherRulesHold ==
    CASE call.op = "ActionButtons" -> ~Clash(1)
      [] call.op = "ListSection" -> Length(call.args[1]) <= 24
      [] call.op = "ProductSection" -> Length(call.args[1]) <= 24
      [] call.op = "ActionList" ->
            /\ Length(call.args[1]) \in 1..20
            /\ Len(call.args[2]) > 1 => Titled(2)
      [] call.op = "ActionCatalog" ->
            /\ Length(call.args[1]) >= 1
            /\ Len(call.args[2]) > 1 => Titled(2)

\* the children of the call and their declared closed interval
Children == call.args[Len(call.args)]

Interval ==
    CASE call.op = "ActionButtons" -> 1..3
      [] call.op = "ListSection" -> 1..10
      [] call.op = "ProductSection" -> 1..30
      [] call.op = "ActionList" -> 1..10
      [] call.op = "ActionCatalog" -> 1..10

\* ActionCatalog's interval is one of ProductSections
CountedChildren ==
    call.op = "ActionCatalog" => AllOfClass(2, "ProductSection")

\* C6: every collection constructor fails when its child count is outside
\* its declared closed interval and accepts every count inside it
\* (ActionButtons 1-3 Buttons, ListSection 1-10 Rows, ProductSection 1-30
\* Products, ActionList 1-10 ListSections, ActionCatalog 1-10
\* ProductSections); zero children always fails.
C6_Cardinality ==
    (Done /\ CountedChildren)
        => /\ Len(Children) \notin Interval => outcome.error # ""
           /\ (Len(Children) \in Interval /\ OtherRulesHold) => outcome.error = ""
           /\ Len(Children) = 0 => outcome.error # ""

\* a ProductSection of 31 Products was refused
C6_Witness ==
    /\ Threw /\ call.op = "ProductSection" /\ Len(call.args[2]) = 31
    /\ Length(call.args[1]) = 1
    /\ outcome.error = "Section must have between 1 and 30 products"

\* C7: ActionCatalog with a catalog id and exactly one Product succeeds in
\* single-product mode (discriminant product, product_retailer_id copied from
\* the Product); with two or more Products passed directly it fails.
C7_SingleProduct ==
    (/\ Done /\ call.op = "ActionCatalog" /\ Length(call.args[1]) >= 1
     /\ Len(call.args[2]) >= 1 /\ AllOfClass(2, "Product"))
        => IF Len(call.args[2]) = 1
           THEN /\ outcome.error = ""
                /\ outcome.this[TAG] = "product"
                /\ outcome.this.product_retailer_id
                       = call.args[2][1].product_retailer_id
                /\ ~HasOwnProperty(outcome.this, "sections")
           ELSE outcome.error # ""

\* a catalog of one Product was built in single-product mode
C7_Witness ==
    /\ Returned /\ call.op = "ActionCatalog"
    /\ Len(call.args[2]) = 1 /\ call.args[2][1].class = "Product"
    /\ outcome.this[TAG] = "product"

\* C8: ActionCatalog with two ProductSections fails when at least one of them
\* has no title (a section built with an empty title has none), and succeeds
\* with discriminant product_list when both have titles.
C8_TwoSections ==
    /\ (/\ Done /\ call.op = "ActionCatalog" /\ Length(call.args[1]) >= 1
        /\ Len(call.args[2]) = 2 /\ AllOfClass(2, "ProductSection"))
          => IF Titled(2)
             THEN /\ outcome.error = ""
                  /\ outcome.this[TAG] = "product_list"
                  /\ outcome.this.sections = call.args[2]
             ELSE outcome.error # ""
    /\ (Returned /\ call.op = "ProductSection")
          => (HasOwnProperty(outcome.this, "title") <=> Length(call.args[1]) >= 1)

\* two ProductSections, the second without a title, were refused
C8_Witness ==
    /\ Threw /\ call.op = "ActionCatalog" /\ Len(call.args[2]) = 2
    /\ AllOfClass(2, "ProductSection")
    /\ HasOwnProperty(call.args[2][1], "title")
    /\ ~HasOwnProperty(call.args[2][2], "title")
    /\ outcome.error
         = "All sections must have a title if more than 1 section is provided"

---------------------------------------------------------------------------
(* Header and Interactive: the constructors that write to their argument *)

\* the Text message object of ./text: a body and the discriminant "text"
Text(body) == Assign([class |-> "Text", body |-> body], TAG, "text")

\* the Image, Video and Document message objects of ./media: a link, the
\* discriminant of the kind, and a caption property when one is given
MediaClass(kind) ==
    CASE kind = "image" -> "Image"
      [] kind = "video" -> "Video"
      [] kind = "document" -> "Document"

Media(kind, caption) ==
    LET base == [class |-> MediaClass(kind), link |-> Str(<<"u">>)]
    IN Assign(IF Truthy(caption) THEN Assign(base, "caption", caption) ELSE base,
              TAG, kind)

\* the outcome of a constructor together with its argument as the call leaves it
Leaving(result, arg) ==
    [error |-> result.error, this |-> result.this, arg |-> arg]

HeaderTypes == {"text", "video", "image", "document"}

HeaderTextTooLong_BodyLimit(obj) == Len(obj.body.chars) > MaxBodyText

\* object.body.length > 60
HeaderTextTooLong(obj) == Len(obj.body.chars) > MaxHeaderText

HeaderStrip_Kept(obj) == obj

\* delete object._
HeaderStrip(obj) == Delete(obj, TAG)

Header(obj) ==
    IF ~Truthy(obj) THEN Leaving(Throw("Header must have an object"), obj)
    ELSE IF ~HasOwnProperty(obj, TAG)
        THEN Leaving(Throw("Unexpected internal error (object._ is not defined)"), obj)
    ELSE IF obj[TAG] \notin HeaderTypes
        THEN Leaving(Throw("Header object must be either Text, Video, Image or Document."),
                     obj)
    ELSE LET this == [class |-> "Header", type |-> obj[TAG]]
         IN IF InstanceOf(obj, "Text")
            THEN IF HeaderTextTooLong(obj)
                 THEN Leaving(Throw("Header text must be 60 characters or less"), obj)
                 ELSE Leaving(Return(Assign(this, obj[TAG], obj.body)), obj)
            ELSE LET stripped == HeaderStrip(obj)
                 IN IF HasOwnProperty(stripped, "caption")
                    THEN Leaving(Throw("Header " \o this.type \o " must not have a caption"),
                                 stripped)
                    ELSE Leaving(Return(Assign(this, this.type, stripped)), stripped)

\* the properties the Interactive constructor sets when their argument is truthy
WithOptional(this, name, value) ==
    IF Truthy(value) THEN Assign(this, name, value) ELSE this

\* the four cross-field tests of the Interactive constructor, in source order

BodyMissing_ListAndButtonOnly(act, body) ==
    act[TAG] \in {"list", "button"} /\ ~Truthy(body)

\* action._ !== "product" && !body
BodyMissing(act, body) == act[TAG] # "product" /\ ~Truthy(body)

HeaderOnProduct_NonTextOnly(act, hdr) ==
    act[TAG] = "product" /\ Truthy(hdr) /\ hdr.type # "text"

\* action._ === "product" && header
HeaderOnProduct(act, hdr) == act[TAG] = "product" /\ Truthy(hdr)

NoTextHeaderOnProductList_IfPresent(act, hdr) ==
    act[TAG] = "product_list" /\ Truthy(hdr) /\ hdr.type # "text"

\* action._ === "product_list" && header?.type !== "text"
NoTextHeaderOnProductList(act, hdr) ==
    act[TAG] = "product_list" /\ (hdr = undefined \/ hdr.type # "text")

NonTextHeader_ButtonsToo(act, hdr) == Truthy(hdr) /\ hdr.type # "text"

\* header && action._ !== "button" && header?.type !== "text"
NonTextHeader(act, hdr) ==
    Truthy(hdr) /\ act[TAG] # "button" /\ (hdr = undefined \/ hdr.type # "text")

InteractiveStrip_Kept(act) == act

\* delete action._
InteractiveStrip(act) == Delete(act, TAG)

Interactive_TextRuleBeforeProductListRule(act, body, hdr, footer) ==
    IF ~Truthy(act)
        THEN Leaving(Throw("Interactive must have an action component"), act)
    ELSE IF ~HasOwnProperty(act, TAG)
        THEN Leaving(Throw("Unexpected internal error (action._ is not defined)"), act)
    ELSE IF BodyMissing(act, body)
        THEN Leaving(Throw("Interactive must have a body component"), act)
    ELSE IF HeaderOnProduct(act, hdr)
        THEN Leaving(Throw("Interactive must not have a header component if action is a single product"),
                     act)
    ELSE IF NonTextHeader(act, hdr)
        THEN Leaving(Throw("Interactive header must be of type Text"), act)
    ELSE IF NoTextHeaderOnProductList(act, hdr)
        THEN Leaving(Throw("Interactive must have a Text header component if action is a product list"),
                     act)
    ELSE LET stripped == InteractiveStrip(act)
             this == [class |-> "Interactive", type |-> act[TAG],
                      action |-> stripped]
         IN Leaving(Return(Assign(
                WithOptional(WithOptional(WithOptional(this, "body", body),
                                          "header", hdr), "footer", footer),
                TAG, "interactive")), stripped)

Interactive(act, body, hdr, footer) ==
    IF ~Truthy(act)
        THEN Leaving(Throw("Interactive must have an action component"), act)
    ELSE IF ~HasOwnProperty(act, TAG)
        THEN Leaving(Throw("Unexpected internal error (action._ is not defined)"), act)
    ELSE IF BodyMissing(act, body)
        THEN Leaving(Throw("Interactive must have a body component"), act)
    ELSE IF HeaderOnProduct(act, hdr)
        THEN Leaving(Throw("Interactive must not have a header component if action is a single product"),
                     act)
    ELSE IF NoTextHeaderOnProductList(act, hdr)
        THEN Leaving(Throw("Interactive must have a Text header component if action is a product list"),
                     act)
    ELSE IF NonTextHeader(act, hdr)
        THEN Leaving(Throw("Interactive header must be of type Text"), act)
    ELSE LET stripped == InteractiveStrip(act)
             this == [class |-> "Interactive", type |-> act[TAG],
                      action |-> stripped]
         IN Leaving(Return(Assign(
                WithOptional(WithOptional(WithOptional(this, "body", body),
                                          "header", hdr), "footer", footer),
                TAG, "interactive")), stripped)

---------------------------------------------------------------------------
(* A caller that builds actions, message objects, Headers and Interactives, *)
(* keeping the objects it built and passing them again to later calls      *)

\* the calls that give the caller its action object
ActionCalls ==
    {[op |-> "ActionList",
      args |-> <<Str(<<"a">>), Copies(ListSection(undefined, DistinctRows(1)).this, 1)>>],
     [op |-> "ActionButtons", args |-> <<DistinctButtons(1)>>],
     [op |-> "ActionCatalog", args |-> <<Str(<<"c">>), DistinctProducts(1)>>],
     [op |-> "ActionCatalog",
      args |-> <<Str(<<"c">>),
                 Copies(ProductSection(undefined, DistinctProducts(1)).this, 1)>>]}

ActionOf(c) ==
    CASE c.op = "ActionList" -> ActionList(c.args[1], c.args[2])
      [] c.op = "ActionButtons" -> ActionButtons(c.args[1])
      [] c.op = "ActionCatalog" -> ActionCatalog(c.args[1], c.args[2])

\* header texts: short ones and the ones around the limit
HeaderTexts == TextInputs(MaxHeaderText) \ {undefined, Str(<<>>)}

Captions == {undefined, Str(<<"c">>)}

\* the calls that give the caller its message object
ObjectCalls ==
    {[op |-> "Text", args |-> <<t>>] : t \in HeaderTexts}
    \cup {[op |-> "Media", args |-> <<k, c>>] :
            k \in HeaderTypes \ {"text"}, c \in Captions}

ObjectOf(c) ==
    CASE c.op = "Text" -> Return(Text(c.args[1]))
      [] c.op = "Media" -> Return(Media(c.args[1], c.args[2]))

Bodies == {undefined, Body(Str(<<"a">>)).this}

Footers == {undefined, Footer(Str(<<"a">>)).this}

Init == /\ call = [op |-> "none", args |-> <<>>]
        /\ outcome = Pending
        /\ NoHeld /\ NoClient

\* the caller builds an action and keeps it
BuildAction ==
    \E c \in ActionCalls :
        /\ call' = c
        /\ outcome' = ActionOf(c)
        /\ action' = outcome'.this
        /\ UNCHANGED <<object, header, Wire>>

\* the caller builds a Text or media object and keeps it
BuildObject ==
    \E c \in ObjectCalls :
        /\ call' = c
        /\ outcome' = ObjectOf(c)
        /\ object' = outcome'.this
        /\ UNCHANGED <<action, header, Wire>>

\* new Header(child), the child being the message object the caller holds or,
\* mistakenly, its action; the caller keeps the Header when one is returned
NewHeader ==
    \E held \in {"object", "action"} :
        LET child == IF held = "object" THEN object ELSE action
            result == Header(child)
        IN /\ call' = [op |-> "Header", args |-> <<child>>]
           /\ outcome' = result
           /\ object' = IF held = "object" THEN result.arg ELSE object
           /\ action' = IF held = "action" THEN result.arg ELSE action
           /\ header' = IF result.error = "" THEN result.this ELSE header
           /\ UNCHANGED Wire

\* new Interactive(action, body, header, footer) with the held action and,
\* if the caller passes one, the held Header
NewInteractive ==
    \E body \in Bodies, hdr \in {undefined, header}, footer \in Footers :
        LET result == Interactive(action, body, hdr, footer)
        IN /\ call' = [op |-> "Interactive", args |-> <<action, body, hdr, footer>>]
           /\ outcome' = result
           /\ action' = result.arg
           /\ UNCHANGED <<object, header, Wire>>

Next == \/ BuildAction
        \/ BuildObject
        \/ NewHeader
        \/ NewInteractive

Spec == Init /\ [][Next]_vars

---------------------------------------------------------------------------
(* Claims about Interactive and Header *)

\* the discriminant an object carries, "none" when it carries none
Discriminant(o) == IF HasOwnProperty(o, TAG) THEN o[TAG] ELSE "none"

InteractiveCalled == Done /\ call.op = "Interactive"

\* the arguments of the Interactive call, as passed
ArgAction == call.args[1]
ArgBody == call.args[2]
ArgHeader == call.args[3]
ArgFooter == call.args[4]

\* C1: constructing an Interactive without a body fails for every action
\* whose discriminant is list, button or product_list, and succeeds without a
\* body when the action is an ActionCatalog in single-product mode and no
\* header is supplied: body is required unless the action is single-product.
C1_BodyRequired ==
    InteractiveCalled =>
        /\ (Discriminant(ArgAction) \in {"list", "button", "product_list"}
            /\ ArgBody = undefined) => outcome.error # ""
        /\ (Discriminant(ArgAction) = "product"
            /\ ArgBody = undefined /\ ArgHeader = undefined) => outcome.error = ""

\* a single-product Interactive was built with neither body nor header
C1_Witness ==
    /\ InteractiveCalled /\ Returned
    /\ Discriminant(ArgAction) = "product" /\ ArgAction.class = "ActionCatalog"
    /\ ArgBody = undefined /\ ArgHeader = undefined
    /\ outcome.this.type = "product"
    /\ ~HasOwnProperty(outcome.this, "body")

\* C2: an Interactive from an ActionCatalog single-product action with no
\* header succeeds, with or without body and footer, and with any Header
\* (text, image, video or document) it fails.
C2_NoHeaderOnProduct ==
    (InteractiveCalled /\ Discriminant(ArgAction) = "product")
        => (outcome.error = "" <=> ArgHeader = undefined)

\* a single-product action with a text Header and a body was refused
C2_Witness ==
    /\ InteractiveCalled /\ Threw
    /\ Discriminant(ArgAction) = "product"
    /\ ArgHeader # undefined /\ ArgHeader.type = "text"
    /\ ArgBody # undefined
    /\ outcome.error
         = "Interactive must not have a header component if action is a single product"

\* C3: for an ActionCatalog action in product_list mode, construction
\* succeeds only if a header is supplied and its type is text: a missing
\* header fails, and an image, video or document header fails.
C3_ProductListHeader ==
    (InteractiveCalled /\ Discriminant(ArgAction) = "product_list")
        => /\ outcome.error = "" => (ArgHeader # undefined /\ ArgHeader.type = "text")
           /\ ArgHeader = undefined => outcome.error # ""
           /\ (ArgHeader # undefined
               /\ ArgHeader.type \in {"image", "video", "document"})
                 => outcome.error # ""

\* a product_list action with a body and no header was refused
C3_Witness ==
    /\ InteractiveCalled /\ Threw
    /\ Discriminant(ArgAction) = "product_list"
    /\ ArgBody # undefined /\ ArgHeader = undefined
    /\ outcome.error
         = "Interactive must have a Text header component if action is a product list"

\* C4: for an Interactive with a body and a supplied header, construction
\* with an ActionList action succeeds if and only if the header type is text,
\* and with an ActionButtons action it succeeds for every header type (text,
\* image, video, document); a header is optional in both modes.
C4_ListAndButtonHeader ==
    (InteractiveCalled /\ ArgBody # undefined)
        => /\ (Discriminant(ArgAction) = "list" /\ ArgHeader # undefined)
                => (outcome.error = "" <=> ArgHeader.type = "text")
           /\ (Discriminant(ArgAction) = "button" /\ ArgHeader # undefined)
                => outcome.error = ""
           /\ (Discriminant(ArgAction) \in {"list", "button"}
               /\ ArgHeader = undefined) => outcome.error = ""

\* a buttons Interactive was built with an image Header
C4_Witness ==
    /\ InteractiveCalled /\ Returned
    /\ Discriminant(ArgAction) = "button" /\ ArgAction.class = "ActionButtons"
    /\ ArgBody # undefined
    /\ ArgHeader # undefined /\ ArgHeader.type = "image"
    /\ outcome.this.header = ArgHeader

HeaderCalled == Done /\ call.op = "Header"

ArgChild == call.args[1]

\* a text object of at most 60 characters, or an image, video or document
\* object without a caption property
AcceptableChild(o) ==
    \/ /\ Discriminant(o) = "text"
       /\ Length(o.body) <= 60
    \/ /\ Discriminant(o) \in {"image", "video", "document"}
       /\ ~HasOwnProperty(o, "caption")

\* C10: Header construction succeeds exactly when its child is a text object
\* whose body is at most 60 characters, or an image/video/document media
\* object that carries no caption field (the kind of a child being the
\* discriminant it carries); a text child of 61 or more characters fails and
\* a media child with a caption set fails.
C10_HeaderChild ==
    HeaderCalled => (outcome.error = "" <=> AcceptableChild(ArgChild))

\* a text child of 61 characters was refused
C10_Witness ==
    /\ HeaderCalled /\ Threw
    /\ Discriminant(ArgChild) = "text" /\ Length(ArgChild.body) = 61
    /\ outcome.error = "Header text must be 60 characters or less"

---------------------------------------------------------------------------
(* Claims about what Header and Interactive store and what they leave behind *)

\* the argument of the Header or Interactive call as the call left it
ArgAfter == outcome.arg

\* o is p without its discriminant, every other property as in p
SameButDiscriminant(o, p) ==
    /\ DOMAIN o = DOMAIN p \ {TAG}
    /\ \A k \in DOMAIN o : o[k] = p[k]

\* C11: a Header constructed from a valid child has type equal to the child's
\* discriminant and stores the child's content under the field named by that
\* type (for a text child the text string itself, for a media child the media
\* object), and neither the Header nor the value it stores carries an internal
\* discriminant field.
C11_HeaderStores ==
    (HeaderCalled /\ Returned) =>
        LET h == outcome.this
        IN /\ h.type = Discriminant(ArgChild)
           /\ DOMAIN h = {"class", "type", h.type}
           /\ h.type = "text" => h.text = ArgChild.body
           /\ h.type # "text" => /\ SameButDiscriminant(h[h.type], ArgChild)
                                 /\ h[h.type] = ArgAfter
           /\ ~HasOwnProperty(h, TAG)
           /\ ~HasOwnProperty(h[h.type], TAG)

\* a Header was built from an image object and holds it under image
C11_Witness ==
    /\ HeaderCalled /\ Returned
    /\ Discriminant(ArgChild) = "image" /\ ArgChild.class = "Image"
    /\ outcome.this.type = "image"
    /\ outcome.this.image.link = ArgChild.link

ArgumentTakingCall == Done /\ call.op \in {"Interactive", "Header"}

\* C12: every constructor only reads its arguments and writes only to the new
\* instance: after a successful construction of an Interactive or a Header,
\* the action or child object passed in by the caller has exactly the same
\* fields (including its discriminant) as before the call.
C12_ArgumentUntouched ==
    (ArgumentTakingCall /\ Returned) => ArgAfter = call.args[1]

\* C16: a constructor call that fails has no effect other than raising the
\* error: the arguments passed in are unchanged afterwards (in particular for
\* a Header built from a media object that has a caption).
C16_FailureLeavesArgument ==
    (ArgumentTakingCall /\ Threw) => ArgAfter = call.args[1]

\* the error the fixed check order reports for the call's arguments, "" if none
FirstViolation ==
    IF ArgAction = undefined
        THEN "Interactive must have an action component"
    ELSE IF Discriminant(ArgAction) = "none"
        THEN "Unexpected internal error (action._ is not defined)"
    ELSE IF Discriminant(ArgAction) # "product" /\ ArgBody = undefined
        THEN "Interactive must have a body component"
    ELSE IF Discriminant(ArgAction) = "product" /\ ArgHeader # undefined
        THEN "Interactive must not have a header component if action is a single product"
    ELSE IF /\ Discriminant(ArgAction) = "product_list"
            /\ (ArgHeader = undefined \/ ArgHeader.type # "text")
        THEN "Interactive must have a Text header component if action is a product list"
    ELSE IF /\ ArgHeader # undefined /\ ArgHeader.type # "text"
            /\ Discriminant(ArgAction) # "button"
        THEN "Interactive header must be of type Text"
    ELSE ""

\* C17: when an Interactive construction violates several rules at once,
\* exactly one error is raised and it is the first in the fixed check order:
\* missing action, action without discriminant, missing body (non-product
\* action), header supplied for single product, non-text or missing header
\* for product_list, non-text header for a non-button action; a product_list
\* action with neither body nor header reports the missing body, and a
\* product_list action with an image header reports the product-list header
\* rule rather than the generic text-header rule.
C17_FirstErrorOnly ==
    InteractiveCalled =>
        /\ outcome.error = FirstViolation
        /\ (Discriminant(ArgAction) = "product_list"
            /\ ArgBody = undefined /\ ArgHeader = undefined)
              => outcome.error = "Interactive must have a body component"
        /\ (Discriminant(ArgAction) = "product_list" /\ ArgBody # undefined
            /\ ArgHeader # undefined /\ ArgHeader.type = "image")
              => outcome.error
                   = "Interactive must have a Text header component if action is a product list"

\* a product_list action with an image Header and a body got the product-list error
C17_Witness ==
    /\ InteractiveCalled /\ Threw
    /\ Discriminant(ArgAction) = "product_list" /\ ArgBody # undefined
    /\ ArgHeader # undefined /\ ArgHeader.type = "image"
    /\ outcome.error
         = "Interactive must have a Text header component if action is a product list"

\* the held action has been stripped of its discriminant
Consumed(a) == a # undefined /\ ~HasOwnProperty(a, TAG)

ConsumedOnSuccess ==
    (InteractiveCalled /\ Returned)
        => /\ Consumed(action)
           /\ outcome.this.action = action
           /\ ~Consumed(ArgAction)

KeptOnFailure == (InteractiveCalled /\ Threw) => action = ArgAction

ConsumedIsRefused ==
    (InteractiveCalled /\ Consumed(ArgAction))
        => outcome.error = "Unexpected internal error (action._ is not defined)"

\* a consumed action stays consumed through every later Header or Interactive call
StaysConsumed ==
    (Consumed(action) /\ call'.op \in {"Interactive", "Header"})
        => action' = action

\* C20: over any sequence of Interactive constructions sharing one action
\* object A: after the first successful construction that uses A the stored
\* action carries no discriminant and every later construction with the same
\* A fails with the internal 'action._ is not defined' error, whatever body,
\* header and footer are given; a construction that fails leaves A's
\* discriminant in place, so A can still be used for a later successful one.
\* Hence each action object is consumed by at most one Interactive.
C20_ConsumedOnce ==
    /\ [](ConsumedOnSuccess /\ KeptOnFailure /\ ConsumedIsRefused)
    /\ [][StaysConsumed]_vars

\* a second Interactive with an already used buttons action, a body and no
\* header was refused
C20_Witness ==
    /\ InteractiveCalled /\ Threw
    /\ Consumed(ArgAction) /\ ArgAction.class = "ActionButtons"
    /\ ArgBody # undefined /\ ArgHeader = undefined
    /\ action = ArgAction
    /\ outcome.error = "Unexpected internal error (action._ is not defined)"

---------------------------------------------------------------------------
(* Further claims about the collection constructors *)

\* C18: ActionList construction with a valid button label (1-20 characters)
\* and a single ListSection succeeds whether or not that section has a title;
\* with two or more sections it succeeds if and only if every section has a
\* title, where a ListSection built with an empty or absent title counts as
\* untitled.
C18_ListSectionTitles ==
    /\ (/\ Done /\ call.op = "ActionList"
        /\ Length(call.args[1]) \in 1..20 /\ Len(call.args[2]) \in 1..10)
          => IF Len(call.args[2]) = 1
             THEN outcome.error = ""
             ELSE outcome.error = "" <=> Titled(2)
    /\ (Returned /\ call.op = "ListSection")
          => (HasOwnProperty(outcome.this, "title") <=> Length(call.args[1]) >= 1)

\* an ActionList of one untitled section was built
C18_Witness ==
    /\ Returned /\ call.op = "ActionList"
    /\ Len(call.args[2]) = 1 /\ ~HasOwnProperty(call.args[2][1], "title")
    /\ outcome.this[TAG] = "list"
    /\ outcome.this.sections = call.args[2]

\* C19: every successfully constructed ActionCatalog is in exactly one mode:
\* either its discriminant is product, product_retailer_id is set and
\* sections is absent, or its discriminant is product_list, sections is set
\* and product_retailer_id is absent; and when sections holds more than one
\* entry every entry is a ProductSection with a title (no mix of Products and
\* ProductSections is ever stored).
C19_CatalogModes ==
    (Returned /\ call.op = "ActionCatalog") =>
        LET c == outcome.this
        IN \/ /\ c[TAG] = "product"
              /\ HasOwnProperty(c, "product_retailer_id")
              /\ Length(c.product_retailer_id) >= 1
              /\ ~HasOwnProperty(c, "sections")
           \/ /\ c[TAG] = "product_list"
              /\ HasOwnProperty(c, "sections")
              /\ ~HasOwnProperty(c, "product_retailer_id")
              /\ \A i \in 1..Len(c.sections) : c.sections[i].class = "ProductSection"
              /\ Len(c.sections) > 1
                    => \A i \in 1..Len(c.sections) :
                          HasOwnProperty(c.sections[i], "title")

\* a catalog of three titled ProductSections was built in product_list mode
C19_Witness ==
    /\ Returned /\ call.op = "ActionCatalog"
    /\ outcome.this[TAG] = "product_list"
    /\ Len(outcome.this.sections) = 3
    /\ ~HasOwnProperty(outcome.this, "product_retailer_id")

---------------------------------------------------------------------------
(* The client, WhatsAppAPI (src/index.ts) *)

\* a JavaScript boolean
Bool(b) == [bool |-> b]

\* !!v
ToBoolean(v) == IF "bool" \in DOMAIN v THEN v.bool ELSE Truthy(v)

\* typeof v === "function"
IsFunction(v) == "function" \in DOMAIN v

\* a destructured parameter with a default: the default applies to undefined
Default(v, d) == IF v = undefined THEN d ELSE v

\* the fetch function of the environment
EnvironmentFetch == [function |-> "fetch"]

\* a fetch function written by the user
CustomFetch == [function |-> "ponyfill"]

\* new WhatsAppAPI({ token, appSecret, webhookVerifyToken, v, parsed, secure, ponyfill })
WhatsAppAPI(o) ==
    LET v == Default(o.v, Str(<<"v">>))
        parsed == Default(o.parsed, Bool(TRUE))
        secure == Default(o.secure, Bool(TRUE))
        ponyfill == Default(o.ponyfill, EnvironmentFetch)
        withToken == [class |-> "WhatsAppAPI", token |-> o.token,
                      secure |-> ToBoolean(secure)]
        withSecret == IF withToken.secure
                      THEN Assign(withToken, "appSecret", o.appSecret)
                      ELSE withToken
        withVerify == IF IsStr(o.webhookVerifyToken)
                      THEN Assign(withSecret, "webhookVerifyToken", o.webhookVerifyToken)
                      ELSE withSecret
    IN IF ~IsStr(o.token) THEN Throw("Token must be a string")
       ELSE IF ToBoolean(secure) /\ ~IsStr(o.appSecret)
           THEN Throw("App secret must be a string. To ignore this parameter, set secure to false (Not recommended).")
       ELSE IF ~IsFunction(ponyfill)
           THEN Throw("fetch is not defined in the enviroment, please provide a ponyfill function with the parameter 'ponyfill'.")
       ELSE IF ~IsStr(v) THEN Throw("Version must be a string")
       ELSE Return(Assign(Assign(Assign(withVerify, "fetch", ponyfill), "v", v),
                          "parsed", ToBoolean(parsed)))

\* the last element of a non-empty sequence
Last(s) == s[Len(s)]

\* chars.split(sep): the pieces of chars between the occurrences of sep
RECURSIVE Split(_, _)
Split(chars, sep) ==
    IF \A i \in 1..Len(chars) : chars[i] # sep THEN <<chars>>
    ELSE LET i == CHOOSE j \in 1..Len(chars) :
                      /\ chars[j] = sep
                      /\ \A k \in 1..(j - 1) : chars[k] # sep
         IN <<SubSeq(chars, 1, i - 1)>>
            \o Split(SubSeq(chars, i + 1, Len(chars)), sep)

\* signature.split("=")[1], undefined where the signature holds no "="
SplitSecond(signature) ==
    LET pieces == Split(signature.chars, "=")
    IN IF Len(pieces) >= 2 THEN Str(pieces[2]) ELSE undefined

\* createHmac("sha256", appSecret).update(rawBody).digest("hex"): a string
\* of hex digits fixed by the secret and the body together; the digest is
\* kept symbolic, one digest for each pair
HmacSha256Hex(appSecret, rawBody) ==
    Str(<<"d">> \o appSecret.chars \o <<"e">> \o rawBody.chars)

SignatureMismatch_Never(signature, hash) == FALSE

\* signature.split("=")[1] !== hash
SignatureMismatch(signature, hash) == SplitSecond(signature) # hash

\* the checks post makes before the request reaches the parser: the thrown
\* code, "" where the request passes
Validating(c, signature, rawBody) ==
    IF ~c.secure THEN ""
    ELSE IF ~Truthy(signature) \/ ~Truthy(rawBody) THEN "400"
    ELSE IF ~Truthy(c.appSecret) THEN "500"
    ELSE IF SignatureMismatch(signature, HmacSha256Hex(c.appSecret, rawBody))
        THEN "400"
    ELSE ""

\* post of ./requests: it reads the payload and calls onMessage for a message
\* notification and onStatus for a status notification, then returns 200; a
\* payload that is not a notification makes it throw 400
RequestsPost(request) ==
    LET handed == <<[event |-> "parser", request |-> request]>>
    IN IF ~HasOwnProperty(request, "object")
           THEN [error |-> "400", this |-> undefined, log |-> handed]
       ELSE IF HasOwnProperty(request, "messages")
           THEN [error |-> "", this |-> Str(<<"2", "0", "0">>),
                 log |-> handed \o <<[event |-> "message",
                                      message |-> request.messages]>>]
       ELSE IF HasOwnProperty(request, "statuses")
           THEN [error |-> "", this |-> Str(<<"2", "0", "0">>),
                 log |-> handed \o <<[event |-> "status",
                                      status |-> request.statuses]>>]
       ELSE [error |-> "", this |-> Str(<<"2", "0", "0">>), log |-> handed]

\* WhatsAppAPI.post(request, signature, rawBody)
post(c, request, signature, rawBody) ==
    IF Validating(c, signature, rawBody) # ""
    THEN [error |-> Validating(c, signature, rawBody), this |-> undefined,
          log |-> <<>>]
    ELSE RequestsPost(request)

\* the transport the functions of ./fetch send through: sendMessage,
\* readMessage, getQR and deleteMedia are called with the token, the version
\* and the operation's own arguments, and with no fetch function
ApiTransport == EnvironmentFetch

\* JSON.stringify(message): the object's own properties, its class is lost
JsonStringify(message) == [json |-> Delete(message, "class")]

\* JSON.parse(text)
JsonParse(text) == text.json

\* api.sendMessage(token, v, phoneID, to, message): the request body it
\* builds; the promise of its transport call is the log entry of Issued
ApiSendMessage(token, v, phoneID, to, message) ==
    Assign([messaging_product |-> "whatsapp", type |-> Discriminant(message),
            to |-> to],
           Discriminant(message), JsonStringify(message))

\* a request goes out: the entry the call leaves in the log
Issued(op, token, request) ==
    [event |-> "request", op |-> op, via |-> ApiTransport, token |-> token,
     request |-> request]

AwaitsResponse_Never(c) == FALSE

\* this.parsed ? await (await promise).json() : undefined
AwaitsResponse(c) == c.parsed

\* this.emit("sent", { phoneID, to, message, request, id, response })
Emitted(phoneID, request, response) ==
    [event |-> "sent", phoneID |-> phoneID, to |-> request.to,
     message |-> JsonParse(request[request.type]), request |-> request,
     id |-> IF Truthy(response)
            THEN IF HasOwnProperty(response, "messages")
                 THEN response.messages[1].id ELSE undefined
            ELSE undefined,
     response |-> IF Truthy(response) THEN response ELSE undefined]

\* what the caller may pass as phoneID, to, id or messageId
Ids == {undefined, Str(<<>>), Str(<<"p">>)}

Messages == {undefined, Text(Str(<<"a">>))}

\* what the transport may answer: JSON of a message response, of an error
\* response or of another operation's response, or a body that is not JSON
ResponseBodies ==
    {[json |-> [messages |-> <<[id |-> Str(<<"m">>)]>>]],
     [json |-> [error |-> [code |-> Str(<<"e">>)]]],
     [json |-> [success |-> Bool(TRUE)]],
     [text |-> Str(<<"<">>)]}

Responses == {[class |-> "Response", body |-> b] : b \in ResponseBodies}

Secrets == {undefined, Str(<<>>), Str(<<"k">>)}

Flags == {undefined, Bool(TRUE), Bool(FALSE)}

BaseOptions == [token |-> Str(<<"t">>), appSecret |-> Str(<<"k">>),
                webhookVerifyToken |-> undefined, v |-> undefined,
                parsed |-> undefined, secure |-> undefined,
                ponyfill |-> undefined]

\* the options objects the caller may construct the client with
Options ==
    {[BaseOptions EXCEPT !.appSecret = a, !.parsed = p, !.secure = s,
                         !.ponyfill = f] :
        a \in Secrets, p \in Flags, s \in Flags,
        f \in {undefined, CustomFetch, Str(<<"f">>)}}
    \cup {[BaseOptions EXCEPT !.token = undefined],
          [BaseOptions EXCEPT !.v = Bool(TRUE)],
          [BaseOptions EXCEPT !.webhookVerifyToken = Str(<<"w">>)]}

RawBodies == {undefined, Str(<<>>), Str(<<"b">>), Str(<<"c">>)}

\* the digest of body "b" under secret "k"
Digest == HmacSha256Hex(Str(<<"k">>), Str(<<"b">>)).chars

\* signatures the webhook's caller may send: none, the empty one, the digest
\* after a prefix and "=", the bare digest, "=" and the digest, the digest
\* followed by "=" and more, a prefix with nothing after "=", another digest
Signatures ==
    {undefined, Str(<<>>),
     Str(<<"s", "=">> \o Digest),
     Str(Digest),
     Str(<<"=">> \o Digest),
     Str(<<"s", "=">> \o Digest \o <<"=", "x">>),
     Str(<<"s", "=">>),
     Str(<<"s", "=">> \o HmacSha256Hex(Str(<<"k">>), Str(<<"c">>)).chars)}

\* webhook payloads: a message notification, a status notification, a
\* notification of neither kind, and a payload that is no notification
PostData ==
    {[object |-> "whatsapp_business_account", messages |-> Str(<<"a">>)],
     [object |-> "whatsapp_business_account", statuses |-> Str(<<"r">>)],
     [object |-> "whatsapp_business_account"],
     [entry |-> Str(<<>>)]}

\* the caller constructs the client and keeps it when the constructor returns
NewWhatsAppAPI ==
    \E o \in Options :
        /\ pc = "idle"
        /\ call' = [op |-> "WhatsAppAPI", args |-> <<o>>]
        /\ outcome' = WhatsAppAPI(o)
        /\ client' = IF outcome'.error = "" THEN outcome'.this ELSE client
        /\ log' = <<>>
        /\ UNCHANGED <<pc, Held>>

\* the webhook's POST handler calls post(request, signature, rawBody)
CallPost ==
    \E request \in PostData, signature \in Signatures, rawBody \in RawBodies :
        LET result == post(client, request, signature, rawBody)
        IN /\ client # undefined /\ pc = "idle"
           /\ call' = [op |-> "post", args |-> <<request, signature, rawBody>>]
           /\ outcome' = [error |-> result.error, this |-> result.this]
           /\ log' = result.log
           /\ UNCHANGED <<client, pc, Held>>

\* an asynchronous operation up to its first await: it rejects for a missing
\* argument (fault), or issues its request and goes on to wait for the
\* transport, emitting first what it emits without waiting
Begin(c, op, fault, request, emits) ==
    IF fault # ""
    THEN [outcome |-> Throw(fault), log |-> <<>>, pc |-> "idle"]
    ELSE [outcome |-> Pending,
          log |-> <<Issued(op, c.token, request)>> \o emits,
          pc |-> IF AwaitsResponse(c) THEN "fetch" ELSE "promise"]

\* WhatsAppAPI.sendMessage(phoneID, to, message), up to its first await
sendMessage ==
    \E phoneID \in Ids, to \in Ids, message \in Messages :
        LET fault == IF ~Truthy(phoneID) THEN "Phone ID must be specified"
                     ELSE IF ~Truthy(to) THEN "To must be specified"
                     ELSE IF ~Truthy(message) THEN "Message must be specified"
                     ELSE ""
            request == IF fault = ""
                       THEN ApiSendMessage(client.token, client.v, phoneID,
                                           to, message)
                       ELSE undefined
            begun == Begin(client, "sendMessage", fault, request,
                           IF fault = "" /\ ~AwaitsResponse(client)
                           THEN <<Emitted(phoneID, request, undefined)>>
                           ELSE <<>>)
        IN /\ client # undefined /\ pc = "idle"
           /\ call' = [op |-> "sendMessage", args |-> <<phoneID, to, message>>]
           /\ outcome' = begun.outcome /\ log' = begun.log /\ pc' = begun.pc
           /\ UNCHANGED <<client, Held>>

\* WhatsAppAPI.markAsRead(phoneID, messageId), up to its first await
markAsRead ==
    \E phoneID \in Ids, messageId \in Ids :
        LET begun == Begin(client, "markAsRead",
                           IF ~Truthy(phoneID) THEN "Phone ID must be specified"
                           ELSE IF ~Truthy(messageId) THEN "To must be specified"
                           ELSE "",
                           [phoneID |-> phoneID, messageId |-> messageId], <<>>)
        IN /\ client # undefined /\ pc = "idle"
           /\ call' = [op |-> "markAsRead", args |-> <<phoneID, messageId>>]
           /\ outcome' = begun.outcome /\ log' = begun.log /\ pc' = begun.pc
           /\ UNCHANGED <<client, Held>>

\* WhatsAppAPI.retrieveQR(phoneID, id), up to its first await
retrieveQR ==
    \E phoneID \in Ids, id \in Ids :
        LET begun == Begin(client, "retrieveQR",
                           IF ~Truthy(phoneID) THEN "Phone ID must be specified"
                           ELSE "",
                           [phoneID |-> phoneID, id |-> id], <<>>)
        IN /\ client # undefined /\ pc = "idle"
           /\ call' = [op |-> "retrieveQR", args |-> <<phoneID, id>>]
           /\ outcome' = begun.outcome /\ log' = begun.log /\ pc' = begun.pc
           /\ UNCHANGED <<client, Held>>

\* WhatsAppAPI.deleteMedia(id, phoneID), up to its first await
deleteMedia ==
    \E id \in Ids, phoneID \in Ids :
        LET begun == Begin(client, "deleteMedia",
                           IF ~Truthy(id) THEN "ID must be specified" ELSE "",
                           [id |-> id, phoneID |-> phoneID], <<>>)
        IN /\ client # undefined /\ pc = "idle"
           /\ call' = [op |-> "deleteMedia", args |-> <<id, phoneID>>]
           /\ outcome' = begun.outcome /\ log' = begun.log /\ pc' = begun.pc
           /\ UNCHANGED <<client, Held>>

\* the transport's promise resolves with a Response: an operation that
\* returned the promise itself resolves with that Response, one that awaits
\* it goes on to read the body
TransportResponds ==
    \E raw \in Responses :
        /\ pc \in {"fetch", "promise"}
        /\ IF pc = "promise"
           THEN /\ outcome' = Return(raw)
                /\ pc' = "idle"
                /\ log' = log
           ELSE /\ outcome' = outcome
                /\ pc' = "json"
                /\ log' = Append(log, [event |-> "response", raw |-> raw])
        /\ UNCHANGED <<call, client, Held>>

\* the transport's promise rejects, and the operation with it
TransportFails ==
    /\ pc \in {"fetch", "promise"}
    /\ outcome' = Throw("fetch failed")
    /\ pc' = "idle"
    /\ UNCHANGED <<call, client, log, Held>>

\* (await promise).json() settles: a body that is not JSON rejects the
\* operation; otherwise sendMessage emits "sent" and the operation resolves
\* with the parsed response
ResponseJson ==
    /\ pc = "json"
    /\ pc' = "idle"
    /\ LET body == Last(log).raw.body
       IN IF ~HasOwnProperty(body, "json")
          THEN /\ outcome' = Throw("Unexpected token in JSON")
               /\ log' = log
          ELSE LET response == JsonParse(body)
               IN /\ outcome' = Return(response)
                  /\ log' = log \o <<[event |-> "json", response |-> response]>>
                       \o (IF call.op = "sendMessage"
                           THEN <<Emitted(call.args[1], log[1].request, response)>>
                           ELSE <<>>)
                       \o <<[event |-> "return", value |-> response]>>
    /\ UNCHANGED <<call, client, Held>>

NextClient == \/ NewWhatsAppAPI
              \/ CallPost
              \/ sendMessage
              \/ markAsRead
              \/ retrieveQR
              \/ deleteMedia
              \/ TransportResponds
              \/ TransportFails
              \/ ResponseJson

SpecClient == Init /\ [][NextClient]_vars

---------------------------------------------------------------------------
(* Claims about the client *)

PostCalled == call.op = "post"

\* the part of a signature after its first "=", up to the next "=" if there
\* is one; undefined where the signature holds no "="
FieldAfterEquals(signature) ==
    LET cs == signature.chars
        eqs == {i \in 1..Len(cs) : cs[i] = "="}
    IN IF eqs = {} THEN undefined
       ELSE LET first == CHOOSE i \in eqs : \A j \in eqs : i <= j
                later == {i \in eqs : i > first}
                stop == IF later = {} THEN Len(cs) + 1
                        ELSE CHOOSE i \in later : \A j \in later : i <= j
            IN Str(SubSeq(cs, first + 1, stop - 1))

Supplied(v) == Truthy(v)

\* signature and raw body are supplied and the signature carries the digest
\* of the raw body under the client's app secret
Authentic(signature, rawBody) ==
    /\ Supplied(signature) /\ Supplied(rawBody) /\ Supplied(client.appSecret)
    /\ FieldAfterEquals(signature) = HmacSha256Hex(client.appSecret, rawBody)

\* C13: in secure mode post emits no message or status event and hands
\* nothing to the parser unless a signature and a raw body are both supplied
\* and the signature's value after "=" equals the hex HMAC-SHA256 of the raw
\* body under the app secret: a missing signature or raw body throws 400, an
\* unset app secret throws 500 and a mismatching signature throws 400; when
\* secure is false the payload goes to the parser without any check.
C13_SignatureChecked ==
    PostCalled =>
        LET request == call.args[1]
            signature == call.args[2]
            rawBody == call.args[3]
        IN IF client.secure
           THEN /\ (~Supplied(signature) \/ ~Supplied(rawBody))
                      => outcome.error = "400"
                /\ (/\ Supplied(signature) /\ Supplied(rawBody)
                    /\ ~Supplied(client.appSecret))
                      => outcome.error = "500"
                /\ (/\ Supplied(signature) /\ Supplied(rawBody)
                    /\ Supplied(client.appSecret)
                    /\ ~Authentic(signature, rawBody))
                      => outcome.error = "400"
                /\ ~Authentic(signature, rawBody) => log = <<>>
                /\ Authentic(signature, rawBody)
                      => log[1] = [event |-> "parser", request |-> request]
           ELSE /\ log # <<>>
                /\ log[1] = [event |-> "parser", request |-> request]
                /\ outcome.error = RequestsPost(request).error
                /\ log = RequestsPost(request).log

\* a secure client was posted a message notification under a signature that
\* carries the digest of the raw body, and emitted the message
C13_Witness ==
    /\ PostCalled /\ client.secure /\ Returned
    /\ Authentic(call.args[2], call.args[3])
    /\ Len(log) = 2 /\ log[2].event = "message"

SendCalled == call.op = "sendMessage"

\* the positions in the log of the entries of one kind
At(event) == {i \in 1..Len(log) : log[i].event = event}

ArgumentMissing == \E i \in 1..Len(call.args) : ~Truthy(call.args[i])

C15_InjectedTransport ==
    client # undefined =>
        \A i \in At("request") : log[i].via = client.fetch

=============================================================================
